---- MODULE Spec2Model ----
(***************************************************************************)
(* State-machine model of execute() of the two measurement scripts         *)
(*   measurements/test09_interpad_cap.py      (script "t09")               *)
(*   measurements/test13_scan_cv_overnight.py (script "t13")               *)
(* One step of the model is one statement of execute() that talks to an    *)
(* instrument (or appends a row, saves, plots).  Between any two steps an  *)
(* operator cancellation (KeyboardInterrupt) may arrive, and every driver  *)
(* call may raise a communication error.                                   *)
(***************************************************************************)
EXTENDS Integers, Sequences, FiniteSets, TLC

VARIABLES
  script,      \* "t09" or "t13": which execute() runs
  volt_list,   \* self.volt_list
  cell_list,   \* self.cell_list (t13 only; <<>> for t09)
  lcr,         \* replies of the LCR meter: a cyclic sequence of pairs
  window,      \* t13: iterations of "while t < 60" that fit in the window
  night,       \* t13: passes of "while time.time() - t0 < 12*3600"
  phase,       \* position in execute(): the block being executed
  i,           \* index of the next statement inside the block
  vi,          \* index of v in volt_list
  fi,          \* t09: index of freq_nom in the frequency list
  ci,          \* t13: index of c in cell_list
  k,           \* t13: rows appended at the current (v, c)
  pass,        \* t13: passes of the outer while loop started
  tmp1, tmp2,  \* t09: the samples of the current point
  out,         \* the output table
  cmds,        \* every driver call issued so far, in order
  meas,        \* every reply of lcr_meter.execute_measurement(), in order
  log,         \* sweep-level log records (severity)
  saved,       \* the tables handed to save_list so far, in order
  exc,         \* exception that left execute(), "none" otherwise
  caught,      \* phase in which an exception was caught, "none" otherwise
  caughtAt,    \* Len(cmds) when the exception was caught
  fault        \* a driver call has raised a communication error

vars == <<script, volt_list, cell_list, lcr, window, night, phase, i, vi, fi,
          ci, k, pass, tmp1, tmp2, out, cmds, meas, log, saved, exc, caught,
          caughtAt, fault>>

\* exception bookkeeping
hist == <<exc, caught, caughtAt, fault>>

env == <<script, volt_list, cell_list, lcr, window, night>>

----------------------------------------------------------------------------
(* Bounds of the model *)

MaxLen == 2        \* longest volt_list explored
MaxWindow == 2     \* most iterations of the 60 s sample window explored
MaxNight == 2      \* most passes over volt_list within the 12 h explored

Volts == {0, 25}
CellLists == {<<186>>, <<186, 187>>}
\* replies of a steady meter, and of one that is steady for five readings and
\* then drifts
FlatReplies == << <<1, 4>> >>
MixedReplies == << <<1, 4>>, <<1, 4>>, <<1, 4>>, <<1, 4>>, <<1, 4>>, <<2, 4>>, <<2, 7>> >>
LcrProfiles == {FlatReplies, MixedReplies}

SeqsUpTo(S, n) == UNION {[1..m -> S] : m \in 0..n}

----------------------------------------------------------------------------
(* Driver calls.  A call is <<device, method, argument>>. *)

Call(dev, op, arg) == <<dev, op, arg>>

NSamples == 5

FreqList == <<500, 1000, 2000, 3000, 5000, 10000, 20000, 50000, 100000, 1000000>>

Setup09 ==
  << Call("ps", "open", 24), Call("ps", "reset", 0),
     Call("ps", "set_source", "voltage"), Call("ps", "set_sense", "current"),
     Call("ps", "set_current_limit", "lim_cur"), Call("ps", "set_voltage", 0),
     Call("ps", "set_terminal", "rear"), Call("ps", "set_output_on", 0),
     Call("lcr", "open", 17), Call("lcr", "reset", 0),
     Call("lcr", "set_voltage", 1), Call("lcr", "set_frequency", 50000),
     Call("lcr", "set_mode", "CPRP"),
     Call("ps", "check_voltage_limit", 0), Call("ps", "check_current_limit", 0),
     Call("lcr", "check_voltage", 0), Call("lcr", "check_frequency", 0) >>

Setup13 ==
  << Call("ps", "open", 24), Call("ps", "reset", 0),
     Call("ps", "set_source", "voltage"), Call("ps", "set_sense", "current"),
     Call("ps", "set_current_limit", "lim_cur"), Call("ps", "set_voltage", 0),
     Call("ps", "set_nplc", 10),
     Call("ps", "set_terminal", "rear"), Call("ps", "set_output_on", 0),
     Call("lcr", "open", 17), Call("lcr", "reset", 0),
     Call("lcr", "set_voltage", 1), Call("lcr", "set_frequency", 10000),
     Call("lcr", "set_mode", "RX"),
     Call("sw", "open", "COM3"), Call("sw", "reboot", 0),
     Call("sw", "set_measurement_type", "CV"), Call("sw", "set_display_mode", "OFF"),
     Call("ps", "check_voltage_limit", 0), Call("ps", "check_current_limit", 0),
     Call("lcr", "check_voltage", 0), Call("lcr", "check_frequency", 0),
     Call("sw", "get_probecard_temperature", 0), Call("sw", "get_matrix_temperature", 0),
     Call("sw", "get_measurement_type", 0), Call("sw", "get_display_mode", 0) >>

\* variant: the output is switched on right after the reset
MutSetupCmds(s) ==
  LET c == IF s = "t09" THEN Setup09 ELSE Setup13
      n == CHOOSE j \in 1..Len(c) : c[j] = Call("ps", "set_output_on", 0)
  IN  SubSeq(c, 1, 2) \o <<c[n]>> \o SubSeq(c, 3, n - 1) \o SubSeq(c, n + 1, Len(c))

SetupCmds(s) == IF s = "t09" THEN Setup09 ELSE Setup13

\* statements of one frequency point of t09 before the sample loop
Prep09(f) ==
  << Call("lcr", "set_frequency", f), Call("lcr", "check_frequency", 0),
     Call("ps", "read_current", 0), Call("ps", "read_voltage", 0) >>

\* statements of one iteration of the t13 sample loop before the append
Sample13 ==
  << Call("ps", "read_voltage", 0), Call("ps", "read_current", 0),
     Call("lcr", "execute_measurement", 0) >>

\* variant: the handler shuts the output off itself
MutHandlerCmds == << Call("ps", "ramp_voltage", 0), Call("ps", "set_output_off", 0) >>

\* the except KeyboardInterrupt block
HandlerCmds == << Call("ps", "ramp_voltage", 0) >>

\* variant: the output is switched off before the ramp down
MutTeardownCmds ==
  << Call("ps", "set_output_off", 0), Call("ps", "ramp_voltage", 0),
     Call("ps", "reset", 0) >>

\* "Close connections"
TeardownCmds ==
  << Call("ps", "ramp_voltage", 0), Call("ps", "set_output_off", 0),
     Call("ps", "reset", 0) >>

\* variant: the try block encloses the ramp_voltage call only
MutTryPhases(s) == {"ramp"}

\* the phases whose statements lie inside the try block
TryPhases(s) ==
  IF s = "t09" THEN {"ramp", "prep", "meas", "append"}
  ELSE {"while", "ramp", "open", "sample", "append"}

InTry(s, p) == p \in TryPhases(s)

----------------------------------------------------------------------------
(* Aggregation: np.mean and np.std (population, ddof = 0) over exact       *)
(* rationals.  A rational is [num, den]; the standard deviation is kept as *)
(* the rational under the square root, [sqrt |-> variance].               *)

RECURSIVE Sum(_)
Sum(s) == IF s = <<>> THEN 0 ELSE Head(s) + Sum(Tail(s))

Frac(n, d) == [num |-> n, den |-> d]

Mean(s) == Frac(Sum(s), Len(s))

\* sum over x of (Len(s)*x - Sum(s))^2, i.e. Len(s)^2 * sum |x - mean|^2
SqDev(s) ==
  LET n == Len(s)
      S == Sum(s)
  IN  Sum([j \in 1..n |-> (n * s[j] - S) * (n * s[j] - S)])

\* variant: sample standard deviation (ddof = 1)
MutStd(s) == [sqrt |-> Frac(SqDev(s), Len(s) * Len(s) * (Len(s) - 1))]

Std(s) == [sqrt |-> Frac(SqDev(s), Len(s) * Len(s) * Len(s))]

\* reply of the n-th call of lcr_meter.execute_measurement()
Reply(profile, n) == profile[((n - 1) % Len(profile)) + 1]

Row09(v, s1, s2) ==
  [v |-> v, cp |-> Mean(s1), cp_err |-> Std(s1), rp |-> Mean(s2), rp_err |-> Std(s2)]

Row13(v, c, r, x) == [v |-> v, c |-> c, r |-> r, x |-> x]

----------------------------------------------------------------------------
Init ==
  /\ script \in {"t09", "t13"}
  /\ volt_list \in SeqsUpTo(Volts, MaxLen)
  /\ lcr \in LcrProfiles
  /\ IF script = "t09"
       THEN cell_list = <<>> /\ window = 1 /\ night = 1
       ELSE cell_list \in CellLists /\ window \in 1..MaxWindow /\ night \in 1..MaxNight
  /\ phase = "setup" /\ i = 1
  /\ vi = 0 /\ fi = 0 /\ ci = 0 /\ k = 0 /\ pass = 0
  /\ tmp1 = <<>> /\ tmp2 = <<>>
  /\ out = <<>> /\ cmds = <<>> /\ meas = <<>> /\ log = <<>>
  /\ saved = <<>> /\ exc = "none" /\ caught = "none"
  /\ caughtAt = 0 /\ fault = FALSE

----------------------------------------------------------------------------
(* Control flow of the sweep loops *)

Running == phase \notin {"done", "raised"}

Goto(p, i_, vi_, fi_, ci_, k_, pass_) ==
  /\ phase' = p /\ i' = i_ /\ vi' = vi_ /\ fi' = fi_ /\ ci' = ci_
  /\ k' = k_ /\ pass' = pass_

\* leaving the try block normally: "Close connections"
ToTeardown == Goto("teardown", 1, vi, fi, ci, k, pass)

\* t09: "for v in self.volt_list" advances to element n, or the loop ends
ForVolt09(n) ==
  IF n <= Len(volt_list) THEN Goto("ramp", 1, n, 0, ci, k, pass) ELSE ToTeardown

\* variant: the last frequency is skipped
MutForFreq09(n) ==
  IF n < Len(FreqList) THEN Goto("prep", 1, vi, n, ci, k, pass) ELSE ForVolt09(vi + 1)

\* t09: "for freq_nom in [...]" advances to element n, or the next voltage
ForFreq09(n) ==
  IF n <= Len(FreqList) THEN Goto("prep", 1, vi, n, ci, k, pass) ELSE ForVolt09(vi + 1)

\* variant: the last voltage is skipped
MutForVolt13(n) ==
  IF n < Len(volt_list) THEN Goto("ramp", 1, n, fi, 0, 0, pass)
  ELSE Goto("while", 1, vi, fi, ci, k, pass)

\* t13: "for v in self.volt_list" advances to element n, or back to the while test
ForVolt13(n) ==
  IF n <= Len(volt_list) THEN Goto("ramp", 1, n, fi, 0, 0, pass)
  ELSE Goto("while", 1, vi, fi, ci, k, pass)

\* t13: "for c in self.cell_list" advances to element n, or the next voltage
ForCell13(n) ==
  IF n <= Len(cell_list) THEN Goto("open", 1, vi, fi, n, 0, pass) ELSE ForVolt13(vi + 1)

\* t13: "while t < 60" after the row number n of this (v, c) was appended
WhileWindow13(n) ==
  IF n < window THEN Goto("sample", 1, vi, fi, ci, n, pass) ELSE ForCell13(ci + 1)

Issue(c) == cmds' = Append(cmds, c)

----------------------------------------------------------------------------
(* Steps of execute() *)

\* t09 l.60-81, t13 l.62-96: set up and check the instruments
SetupStep ==
  /\ phase = "setup"
  /\ Issue(SetupCmds(script)[i])
  /\ IF i < Len(SetupCmds(script))
       THEN Goto("setup", i + 1, vi, fi, ci, k, pass)
       ELSE IF script = "t09" THEN ForVolt09(1)
            ELSE Goto("while", 1, vi, fi, ci, k, pass)
  /\ UNCHANGED <<env, tmp1, tmp2, out, meas, log, saved, hist>>

\* t13 l.137-138: t0 = time.time(); while (time.time() - t0 < 12*3600)
WhileNight ==
  /\ script = "t13" /\ phase = "while"
  /\ IF pass < night
       THEN IF volt_list = <<>>
              THEN Goto("while", 1, vi, fi, ci, k, pass + 1)
              ELSE Goto("ramp", 1, 1, fi, 0, 0, pass + 1)
       ELSE ToTeardown
  /\ UNCHANGED <<env, tmp1, tmp2, out, cmds, meas, log, saved, hist>>

\* t09 l.110-111, t13 l.140-142: pow_supply.ramp_voltage(v)
RampStep ==
  /\ phase = "ramp"
  /\ Issue(Call("ps", "ramp_voltage", volt_list[vi]))
  /\ IF script = "t09" THEN ForFreq09(1) ELSE ForCell13(1)
  /\ UNCHANGED <<env, tmp1, tmp2, out, meas, log, saved, hist>>

\* t09 l.114-122: set and read back the frequency, read current and voltage,
\* then tmp1 = [], tmp2 = []
PrepStep ==
  /\ script = "t09" /\ phase = "prep"
  /\ Issue(Prep09(FreqList[fi])[i])
  /\ IF i < Len(Prep09(FreqList[fi]))
       THEN Goto("prep", i + 1, vi, fi, ci, k, pass) /\ UNCHANGED <<tmp1, tmp2>>
       ELSE Goto("meas", 1, vi, fi, ci, k, pass) /\ tmp1' = <<>> /\ tmp2' = <<>>
  /\ UNCHANGED <<env, out, meas, log, saved, hist>>

\* t09 l.123-126: one iteration of "for i in range(5)"
MeasStep ==
  /\ script = "t09" /\ phase = "meas"
  /\ LET r == Reply(lcr, Len(meas) + 1)
     IN  /\ Issue(Call("lcr", "execute_measurement", 0))
         /\ meas' = Append(meas, r)
         /\ tmp1' = Append(tmp1, r[1])
         /\ tmp2' = Append(tmp2, r[2])
  /\ IF i < NSamples
       THEN Goto("meas", i + 1, vi, fi, ci, k, pass)
       ELSE Goto("append", 1, vi, fi, ci, k, pass)
  /\ UNCHANGED <<env, out, log, saved, hist>>

\* t09 l.127-135: aggregate, out.append(...), logging.info(...)
Append09 ==
  /\ script = "t09" /\ phase = "append"
  /\ out' = Append(out, Row09(volt_list[vi], tmp1, tmp2))
  /\ log' = Append(log, "info")
  /\ ForFreq09(fi + 1)
  /\ UNCHANGED <<env, tmp1, tmp2, cmds, meas, saved, hist>>

\* t13 l.145-148: switch.open_channel(c); t = 0
OpenStep ==
  /\ script = "t13" /\ phase = "open"
  /\ Issue(Call("sw", "open_channel", cell_list[ci]))
  /\ Goto("sample", 1, vi, fi, ci, 0, pass)
  /\ UNCHANGED <<env, tmp1, tmp2, out, meas, log, saved, hist>>

\* t13 l.150-156: read voltage, current and one impedance
SampleStep ==
  /\ script = "t13" /\ phase = "sample"
  /\ Issue(Sample13[i])
  /\ IF i < Len(Sample13)
       THEN Goto("sample", i + 1, vi, fi, ci, k, pass) /\ UNCHANGED meas
       ELSE /\ Goto("append", 1, vi, fi, ci, k, pass)
            /\ meas' = Append(meas, Reply(lcr, Len(meas) + 1))
  /\ UNCHANGED <<env, tmp1, tmp2, out, log, saved, hist>>

\* t13 l.158-159 and the test of "while t < 60"
Append13 ==
  /\ script = "t13" /\ phase = "append"
  /\ LET r == meas[Len(meas)]
     IN  out' = Append(out, Row13(volt_list[vi], cell_list[ci], r[1], r[2]))
  /\ log' = Append(log, "info")
  /\ WhileWindow13(k + 1)
  /\ UNCHANGED <<env, tmp1, tmp2, cmds, meas, saved, hist>>

\* t09 l.138, t13 l.163: the handler ramps down
HandlerStep ==
  /\ phase = "handler"
  /\ Issue(HandlerCmds[i])
  /\ IF i < Len(HandlerCmds)
       THEN Goto("handler", i + 1, vi, fi, ci, k, pass)
       ELSE Goto("handler_log", 1, vi, fi, ci, k, pass)
  /\ UNCHANGED <<env, tmp1, tmp2, out, meas, log, saved, hist>>

\* t09 l.139, t13 l.164: self.logging.error(...)
HandlerLog ==
  /\ phase = "handler_log"
  /\ log' = Append(log, "error")
  /\ ToTeardown
  /\ UNCHANGED <<env, tmp1, tmp2, out, cmds, meas, saved, hist>>

\* t09 l.143-146, t13 l.168-170: ramp to zero, output off, reset
TeardownStep ==
  /\ phase = "teardown"
  /\ Issue(TeardownCmds[i])
  /\ IF i < Len(TeardownCmds)
       THEN Goto("teardown", i + 1, vi, fi, ci, k, pass)
       ELSE Goto("save", 1, vi, fi, ci, k, pass)
  /\ UNCHANGED <<env, tmp1, tmp2, out, meas, log, saved, hist>>

\* t09 l.150, t13 l.174: self.save_list(out, "cv.dat", ...)
SaveStep ==
  /\ phase = "save"
  /\ saved' = Append(saved, out)
  /\ Goto("graph", 1, vi, fi, ci, k, pass)
  /\ UNCHANGED <<env, tmp1, tmp2, out, cmds, meas, log, hist>>

\* t09 l.151-154, t13 l.175-178: np.array(out)[:, n] raises IndexError on an
\* empty table
GraphStep ==
  /\ phase = "graph"
  /\ IF out = <<>>
       THEN Goto("raised", 1, vi, fi, ci, k, pass) /\ exc' = "IndexError"
       ELSE Goto("done", 1, vi, fi, ci, k, pass) /\ exc' = exc
  /\ UNCHANGED <<env, tmp1, tmp2, out, cmds, meas, log, saved, caught, caughtAt, fault>>

\* the statement at the current position is a call of an instrument driver
AtDriverCall ==
  phase \in {"setup", "ramp", "prep", "meas", "open", "sample", "handler", "teardown"}

\* variant: a bare "except:" around the sweep loop
MutCatches(s, p, e) == InTry(s, p)

\* t09 l.108/137, t13 l.136/162: the only except clause is
\* "except KeyboardInterrupt", around the sweep loop
Catches(s, p, e) == e = "KeyboardInterrupt" /\ InTry(s, p)

\* variant: the handler flushes the samples taken so far as a row
MutRaise(e) ==
  /\ IF e = "KeyboardInterrupt" /\ InTry(script, phase)
       THEN /\ Goto("handler", 1, vi, fi, ci, k, pass)
            /\ caught' = phase /\ caughtAt' = Len(cmds) /\ exc' = exc
            /\ out' = IF script = "t09" /\ phase = "meas" /\ tmp1 # <<>>
                        THEN Append(out, [v |-> volt_list[vi],
                                          cp |-> Mean(tmp1), cp_err |-> Std(tmp1),
                                          rp |-> Mean(tmp2), rp_err |-> Std(tmp2)])
                        ELSE out
       ELSE /\ Goto("raised", 1, vi, fi, ci, k, pass)
            /\ exc' = e /\ UNCHANGED <<caught, caughtAt, out>>
  /\ UNCHANGED <<env, tmp1, tmp2, cmds, meas, log, saved>>

\* exception e is raised by the statement at the current position
Raise(e) ==
  /\ IF Catches(script, phase, e)
       THEN /\ Goto("handler", 1, vi, fi, ci, k, pass)
            /\ caught' = phase /\ caughtAt' = Len(cmds) /\ exc' = exc
       ELSE /\ Goto("raised", 1, vi, fi, ci, k, pass)
            /\ exc' = e /\ UNCHANGED <<caught, caughtAt>>
  /\ UNCHANGED <<env, tmp1, tmp2, out, cmds, meas, log, saved>>

\* the operator presses Ctrl-C: KeyboardInterrupt before the statement at the
\* current position completes
Interrupt ==
  /\ Running
  /\ Raise("KeyboardInterrupt")
  /\ UNCHANGED fault

\* the driver call at the current position raises (pyvisa error)
HwFail ==
  /\ Running /\ AtDriverCall
  /\ fault' = TRUE
  /\ Raise("Exception")

Next ==
  \/ SetupStep \/ WhileNight \/ RampStep \/ PrepStep \/ MeasStep \/ Append09
  \/ OpenStep \/ SampleStep \/ Append13 \/ HandlerStep \/ HandlerLog
  \/ TeardownStep \/ SaveStep \/ GraphStep \/ Interrupt \/ HwFail

Step ==
  \/ SetupStep \/ WhileNight \/ RampStep \/ PrepStep \/ MeasStep \/ Append09
  \/ OpenStep \/ SampleStep \/ Append13 \/ HandlerStep \/ HandlerLog
  \/ TeardownStep \/ SaveStep \/ GraphStep

Spec == Init /\ [][Next]_vars

\* The interpreter always executes the next statement.  The replies of the LCR
\* meter never influence the control flow, so the fair specification follows
\* one reply profile only.
InitFair == Init /\ lcr = MixedReplies

FairSpec == InitFair /\ [][Next]_vars /\ WF_vars(Step)

----------------------------------------------------------------------------
(* Vocabulary of the properties *)

IsPs(c, op) == c[1] = "ps" /\ c[2] = op

Idx(op) == {j \in 1..Len(cmds) : IsPs(cmds[j], op)}

RampIdx == Idx("ramp_voltage")
OnIdx == Idx("set_output_on")
OffIdx == Idx("set_output_off")
ResetIdx == Idx("reset")
ZeroRampIdx == {j \in RampIdx : cmds[j][3] = 0}

\* targets of the ramp_voltage calls among cmds[lo..hi], in order
RECURSIVE RampTargets(_, _)
RampTargets(lo, hi) ==
  IF lo > hi THEN <<>>
  ELSE IF IsPs(cmds[lo], "ramp_voltage")
         THEN <<cmds[lo][3]>> \o RampTargets(lo + 1, hi)
         ELSE RampTargets(lo + 1, hi)

RECURSIVE Repeat(_, _)
Repeat(s, n) == IF n = 0 THEN <<>> ELSE s \o Repeat(s, n - 1)

IsPrefix(s, t) == Len(s) <= Len(t) /\ SubSeq(t, 1, Len(s)) = s

SweepPhases == {"while", "ramp", "prep", "meas", "open", "sample", "append"}

\* ramp to zero, output off and reset were issued, in this order, after cmds[n]
TornDownAfter(n) ==
  \E r \in ZeroRampIdx, o \in OffIdx, z \in ResetIdx : n < r /\ r < o /\ o < z

\* the sweep loop ended without a cancellation and teardown has begun
SweepCompleted ==
  /\ caught = "none"
  /\ phase \in {"teardown", "save", "graph", "done"}

VoltColumn == [j \in 1..Len(out) |-> out[j].v]

----------------------------------------------------------------------------
\* C1: a KeyboardInterrupt raised at any point inside the sweep loop is caught
\* (control enters the handler, nothing leaves execute()), and from there the
\* run goes on to log an error record and to issue ramp_voltage(0),
\* set_output_off() and reset(), unless a second cancellation or a driver
\* error strikes after the first one.
C1_CancelLeadsToTeardown ==
  /\ [][(Interrupt /\ phase \in SweepPhases)
          => (phase' = "handler" /\ exc' = "none" /\ cmds' = cmds)]_vars
  /\ (caught # "none")
       ~> \/ /\ TornDownAfter(caughtAt)
             /\ \E j \in 1..Len(log) : log[j] = "error"
          \/ exc \in {"KeyboardInterrupt", "Exception"}

\* a cancelled sweep that ran to the end of execute()
C1_Witness ==
  /\ caught = "meas" /\ phase = "done" /\ exc = "none"
  /\ TornDownAfter(caughtAt)
  /\ \E j \in 1..Len(log) : log[j] = "error"

\* C2: whenever set_output_off has been issued, a ramp_voltage(0) was issued
\* before it and no ramp to a non-zero voltage lies between the last
\* ramp_voltage(0) and the set_output_off.
C2_ZeroBeforeOff ==
  \A o \in OffIdx :
    \E r \in ZeroRampIdx :
      /\ r < o
      /\ \A m \in RampIdx : (r < m /\ m < o) => cmds[m][3] = 0

\* output switched off after a cancelled sweep that had ramped to 25 V
C2_Witness ==
  /\ OffIdx # {} /\ caught # "none"
  /\ \E m \in RampIdx : cmds[m][3] = 25

\* C3 as stated: a run cancelled mid-sweep that reaches the end of execute()
\* has issued, after the cancellation, exactly one ramp_voltage(0) and exactly
\* one set_output_off.
C3_OnceEach ==
  (caught # "none" /\ phase = "done")
    => /\ Cardinality({j \in ZeroRampIdx : j > caughtAt}) = 1
       /\ Cardinality({j \in OffIdx : j > caughtAt}) = 1

\* C3 amended: after a cancellation caught mid-sweep there are never more
\* than two ramp_voltage(0) and one set_output_off, and once teardown has
\* completed (save_list reached) there are exactly two ramp_voltage(0), the
\* handler's and the teardown's, followed by exactly one set_output_off.
C3_TwoRampsOneOff ==
  caught # "none" =>
    LET zs == {j \in ZeroRampIdx : j > caughtAt}
        os == {j \in OffIdx : j > caughtAt}
    IN  /\ Cardinality(zs) <= 2 /\ Cardinality(os) <= 1
        /\ \A z \in zs, o \in os : z < o
        /\ phase \in {"save", "graph", "done"}
             => Cardinality(zs) = 2 /\ Cardinality(os) = 1

\* cancelled at the second of two voltages, run finished
C3_Witness ==
  /\ caught # "none" /\ phase = "done"
  /\ Len(volt_list) = 2 /\ vi = 2
  /\ Cardinality({j \in ZeroRampIdx : j > caughtAt}) = 2

\* C4 as stated: a run that has issued set_output_on and ended, normally or by
\* a cancellation, has issued set_output_off and then reset after it.
C4_OutputOffAtEnd ==
  (phase \in {"done", "raised"} /\ exc # "Exception" /\ OnIdx # {})
    => \A n \in OnIdx : \E o \in OffIdx, z \in ResetIdx : n < o /\ o < z

\* each element of s repeated n times, in order
Spread(s, n) == [j \in 1..(Len(s) * n) |-> s[((j - 1) \div n) + 1]]

\* col can be cut into consecutive non-empty blocks, block j holding only pat[j]
RECURSIVE Matches(_, _)
Matches(col, pat) ==
  IF pat = <<>> THEN col = <<>>
  ELSE /\ col # <<>>
       /\ Head(col) = Head(pat)
       /\ \/ Matches(Tail(col), Tail(pat))
          \/ Matches(Tail(col), pat)

\* the (v, c) points of one pass over volt_list, in sweep order
Points13 ==
  [j \in 1..(Len(volt_list) * Len(cell_list)) |->
     <<volt_list[((j - 1) \div Len(cell_list)) + 1],
       cell_list[((j - 1) % Len(cell_list)) + 1]>>]

PointColumn == [j \in 1..Len(out) |-> <<out[j].v, out[j].c>>]

\* C5 as stated: after a sweep that ran to completion the table holds
\* len(L) x n rows for one fixed number n of rows per point, and the voltage
\* column visits the voltages of L once, in the order of L.
C5_LenTimesSamples ==
  SweepCompleted =>
    \E n \in 0..Len(out) :
      /\ Len(out) = Len(volt_list) * n
      /\ VoltColumn = Spread(volt_list, n)

\* C5 amended: after a sweep that ran to completion, test09 holds exactly
\* len(L) x 10 rows (one per frequency of the fixed list), each voltage of L
\* filling 10 consecutive rows in the order of L; test13 holds one or more
\* complete passes over L x cell_list in sweep order, every (voltage, cell)
\* point of every pass contributing at least one row.
C5_RowsInSweepOrder ==
  SweepCompleted =>
    IF script = "t09"
      THEN /\ Len(out) = Len(volt_list) * Len(FreqList)
           /\ VoltColumn = Spread(volt_list, Len(FreqList))
      ELSE \E p \in 1..MaxNight : Matches(PointColumn, Repeat(Points13, p))

\* an overnight scan that went twice over two different voltages
C5_Witness ==
  /\ SweepCompleted /\ phase = "done" /\ script = "t13"
  /\ Len(volt_list) = 2 /\ volt_list[1] # volt_list[2]
  /\ Len(out) > Len(volt_list) * Len(cell_list) * window

\* C6: once a driver call has raised a communication error, the exception has
\* left execute(): the run is over, nothing was written, and no step issues a
\* further driver command, appends a row or saves the table; the failing step
\* itself issues nothing and appends nothing.
C6_DriverErrorAborts ==
  /\ [](fault => (phase = "raised" /\ exc = "Exception" /\ saved = <<>>))
  /\ [][fault' => UNCHANGED <<cmds, out, saved, log>>]_vars

\* a driver error in the middle of a sweep, rows already recorded, output on
C6_Witness ==
  /\ fault /\ phase = "raised" /\ out # <<>>
  /\ OnIdx # {} /\ OffIdx = {}

\* the n-th block of NSamples replies, first or second component
Chunk(n, c) == [j \in 1..NSamples |-> meas[NSamples * (n - 1) + j][c]]

SumSq(s) == Sum([j \in 1..Len(s) |-> s[j] * s[j]])

\* m = (sum of s) / len(s)
IsMeanOf(m, s) == m.den # 0 /\ m.num * Len(s) = Sum(s) * m.den

\* e^2 = (sum of squares) / n - mean^2
IsPopStdOf(e, s) ==
  LET n == Len(s)
  IN  /\ e.sqrt.den # 0
      /\ e.sqrt.num * n * n = (n * SumSq(s) - Sum(s) * Sum(s)) * e.sqrt.den

Aggregates09(row, n) ==
  /\ Len(meas) >= NSamples * n
  /\ IsMeanOf(row.cp, Chunk(n, 1)) /\ IsPopStdOf(row.cp_err, Chunk(n, 1))
  /\ IsMeanOf(row.rp, Chunk(n, 2)) /\ IsPopStdOf(row.rp_err, Chunk(n, 2))

\* the fields of a row that come from lcr_meter.execute_measurement()
Values(row) ==
  IF script = "t09" THEN <<row.cp, row.rp>> ELSE <<Frac(row.r, 1), Frac(row.x, 1)>>

\* C7 as stated: every row of the table records the arithmetic mean of the 5
\* consecutive readings taken at its point, and an error equal to their
\* population standard deviation.
C7_MeanStdOfFive ==
  \A n \in 1..Len(out) :
    /\ Len(meas) >= NSamples * n
    /\ IsMeanOf(Values(out[n])[1], Chunk(n, 1))
    /\ IsMeanOf(Values(out[n])[2], Chunk(n, 2))
    /\ {"cp_err", "rp_err"} \subseteq DOMAIN out[n]
    /\ IsPopStdOf(out[n].cp_err, Chunk(n, 1))
    /\ IsPopStdOf(out[n].rp_err, Chunk(n, 2))

\* C7 amended: in test09 the n-th row records the arithmetic mean and the
\* population standard deviation of the n-th block of 5 consecutive readings;
\* in test13 the n-th row records the single n-th reading as it was read,
\* with no averaging and no error column.
C7_AggregationPerScript ==
  \A n \in 1..Len(out) :
    IF script = "t09"
      THEN Aggregates09(out[n], n)
      ELSE /\ Len(meas) >= n
           /\ out[n].r = meas[n][1] /\ out[n].x = meas[n][2]
           /\ DOMAIN out[n] = {"v", "c", "r", "x"}

\* a test09 row whose readings differ, and one whose error is zero
C7_Witness ==
  /\ script = "t09" /\ Len(out) >= 2
  /\ \E n \in 1..Len(out) : out[n].cp_err.sqrt.num > 0
  /\ \E n \in 1..Len(out) : out[n].rp_err.sqrt.num = 0

\* arguments of the calls of method op of device dev among cmds[lo..hi]
RECURSIVE Args(_, _, _, _)
Args(dev, op, lo, hi) ==
  IF lo > hi THEN <<>>
  ELSE IF cmds[lo][1] = dev /\ cmds[lo][2] = op
         THEN <<cmds[lo][3]>> \o Args(dev, op, lo + 1, hi)
         ELSE Args(dev, op, lo + 1, hi)

\* the teardown's own ramp_voltage(0) has been issued
TeardownRamped ==
  (phase = "teardown" /\ i > 1) \/ phase \in {"save", "graph", "done"}

\* targets of the ramp_voltage calls issued by the sweep loop itself
SweepRamps ==
  IF caught # "none" THEN RampTargets(1, caughtAt)
  ELSE LET all == RampTargets(1, Len(cmds))
       IN  IF TeardownRamped THEN SubSeq(all, 1, Len(all) - 1) ELSE all

\* channels opened by the sweep loop
SweepChannels ==
  Args("sw", "open_channel", 1, IF caught # "none" THEN caughtAt ELSE Len(cmds))

\* C8 as stated: in a run whose sweep completed, every entry of volt_list was
\* applied by ramp_voltage exactly once, in list order.
C8_EachEntryOnce ==
  SweepCompleted => SweepRamps = volt_list

\* C8 amended: volt_list and cell_list are never modified.  In test09 the
\* sweep applies the entries of volt_list in list order, each exactly once
\* when the sweep completes.  In test13 the sweep walks volt_list in list
\* order once per pass of the 12 h loop, so a completed sweep has applied the
\* whole list one or more times, and after every ramp it opens the entries of
\* cell_list once each, in list order.
C8_ListWalkedInOrder ==
  /\ [][volt_list' = volt_list /\ cell_list' = cell_list]_vars
  /\ [](phase # "raised" =>
          IF script = "t09"
            THEN /\ IsPrefix(SweepRamps, volt_list)
                 /\ SweepCompleted => SweepRamps = volt_list
            ELSE /\ IsPrefix(SweepRamps, Repeat(volt_list, MaxNight))
                 /\ IsPrefix(SweepChannels, Repeat(cell_list, Len(SweepRamps)))
                 /\ SweepCompleted =>
                      /\ \E p \in 1..MaxNight : SweepRamps = Repeat(volt_list, p)
                      /\ SweepChannels = Repeat(cell_list, Len(SweepRamps)))

\* an overnight scan that applied a two-voltage list twice
C8_Witness ==
  /\ script = "t13" /\ phase = "done" /\ caught = "none"
  /\ Len(volt_list) = 2 /\ volt_list[1] # volt_list[2]
  /\ SweepRamps = volt_list \o volt_list
  /\ Len(cell_list) = 2

\* C9: save_list is called once, after set_output_off and reset, with the
\* table as it stands after the sweep: only whole rows, row n built from the
\* n-th block of readings, and at most one point's readings left out (those
\* of the point a cancellation interrupted).
C9_SavedAfterTeardown ==
  saved # <<>> =>
    /\ Len(saved) = 1 /\ saved[1] = out
    /\ \E o \in OffIdx, z \in ResetIdx : o < z /\ \A n \in OnIdx : n < o
    /\ IF script = "t09"
         THEN /\ \A n \in 1..Len(saved[1]) : Aggregates09(saved[1][n], n)
              /\ Len(meas) - NSamples * Len(saved[1]) \in 0..NSamples
         ELSE /\ \A n \in 1..Len(saved[1]) :
                   saved[1][n].r = meas[n][1] /\ saved[1][n].x = meas[n][2]
              /\ Len(meas) - Len(saved[1]) \in {0, 1}

\* a table saved after a cancellation that struck between two of the five
\* readings of a point
C9_Witness ==
  /\ saved # <<>> /\ script = "t09" /\ caught = "meas"
  /\ Len(tmp1) \in 1..(NSamples - 1)
  /\ Len(saved[1]) >= 1

\* C10: set_output_on is issued only after reset, set_current_limit and
\* set_voltage(0) of the power supply; every ramp_voltage lies after
\* set_output_on and before set_output_off; a step that changes the table
\* appends one row, does so while the output is on, and the row's nominal
\* voltage is the target of the most recent ramp_voltage.
C10_SafeOrder ==
  /\ [](\A n \in OnIdx :
          \E a \in ResetIdx, b \in Idx("set_current_limit"), c \in Idx("set_voltage") :
            a < n /\ b < n /\ c < n /\ cmds[c][3] = 0)
  /\ [](\A r \in RampIdx :
          /\ \E n \in OnIdx : n < r
          /\ \A o \in OffIdx : r < o)
  /\ [][out' # out =>
          /\ OnIdx # {} /\ OffIdx = {} /\ RampIdx # {}
          /\ Len(out') = Len(out) + 1 /\ SubSeq(out', 1, Len(out)) = out
          /\ \A r \in RampIdx :
               (\A m \in RampIdx : m <= r) => out'[Len(out')].v = cmds[r][3]]_vars

\* a finished run whose table holds rows at two different voltages
C10_Witness ==
  /\ phase = "done" /\ OffIdx # {}
  /\ \E a, b \in 1..Len(out) : out[a].v # out[b].v

====
